---- MODULE Spec2Model ----
(***************************************************************************)
(* Model of the two streaming chat backends of CHATBOT-AGENTIC:            *)
(*   main_updated.py   (state-snapshot stream, call_tool catches errors)   *)
(*   CHATBOT/main.py   (event stream, inline tool dispatch)                *)
(* Both drive a LangGraph graph  model -> (tool_node -> model)*  compiled  *)
(* with an in-memory checkpointer.  The graph runtime is a library: it is  *)
(* modelled by what it does at the places the sources call it (a           *)
(* checkpoint of the whole channel state after the input and after every   *)
(* node, latest checkpoint wins, a recursion limit on node executions, an  *)
(* exception of a node ends the stream with that exception).               *)
(***************************************************************************)
EXTENDS Integers, Sequences, FiniteSets, TLC

VARIABLES server, store, runs, asked, session

vars == <<server, store, runs, asked, session>>

\* ---------------------------------------------------------------- bounds
\* number of requests (streams) in one behaviour; they may overlap
MaxRuns == 2
\* largest number of tool-call requests the model puts in one message
MaxCalls == 2
\* node executions allowed in one turn (the library default is 25)
RecursionLimit == 3
\* tool-call requests the model makes in one behaviour, all turns together
MaxToolCalls == 2

Runs == 1..MaxRuns

\* ------------------------------------------------------------- constants
Servers == {"main_updated", "CHATBOT_main"}

\* the request carried no thread identifier (Optional[str] = None)
NoId == "None"

\* identifiers a client may send; the empty one is what "?thread_id=" gives
SuppliedIds == {"", "t1"}

\* str(uuid4()) of the request served as run r: fresh for every call
uuid4(r) == <<"uuid-1", "uuid-2", "uuid-3", "uuid-4">>[r]

\* the message text of the request served as run r
UserText(r) == <<"q1", "q2", "q3", "q4">>[r]

\* names the model may put in a tool-call request
ToolNames == {"tavily_search_results_json", "get_stock_price", "no_such_tool"}

\* text is a sequence of tokens; the model streams it token by token
Texts == {<<>>, <<"a", "b">>, <<"stock price">>}

\* ALL_TOOLS / tool_map of main_updated
tool_map == {"tavily_search_results_json", "get_weather", "get_exchange_rate",
             "get_crypto_spot_price", "get_public_holidays", "get_joke",
             "get_stock_price"}

\* ------------------------------------------------------------- messages
HumanMessage(id, text) ==
  [type |-> "human", id |-> id, content |-> text, tool_calls |-> <<>>,
   tool_call_id |-> 0, name |-> ""]

AIMessage(id, text, calls) ==
  [type |-> "ai", id |-> id, content |-> text, tool_calls |-> calls,
   tool_call_id |-> 0, name |-> ""]

ToolMessage(id, content, name, tool_call_id) ==
  [type |-> "tool", id |-> id, content |-> content, tool_calls |-> <<>>,
   tool_call_id |-> tool_call_id, name |-> name]

\* id of the k-th message created by run r (ids are uuids: never reused)
MsgId(r, k) == r * 100 + k

\* the tool-call requests of a model answer: names in declaration order,
\* each with a call id unique to the message
ToolCalls(mid, names) ==
  [i \in 1..Len(names) |-> [id |-> mid * 10 + i, name |-> names[i],
                            args |-> [query |-> "q"]]]

\* ------------------------------------------------- State / add_messages
IndexOfId(left, id) ==
  IF \E i \in 1..Len(left) : left[i].id = id
  THEN CHOOSE i \in 1..Len(left) : left[i].id = id
  ELSE 0

RECURSIVE add_messages(_, _)
add_messages(left, right) ==
  IF right = <<>> THEN left
  ELSE LET m == Head(right)
           i == IndexOfId(left, m.id)
       IN add_messages(IF i = 0 THEN Append(left, m)
                                ELSE [left EXCEPT ![i] = m],
                       Tail(right))

\* --------------------------------------------------------- checkpointer
\* a lookup that falls back to some stored thread for an unknown identifier
load_conversation_first(st, thread) ==
  IF thread \in DOMAIN st THEN st[thread]
  ELSE IF DOMAIN st # {} THEN st[CHOOSE t \in DOMAIN st : TRUE] ELSE <<>>

\* get_state(config).values.get('messages', [])
load_conversation(st, thread) ==
  IF thread \in DOMAIN st THEN st[thread] ELSE <<>>

\* a checkpointer with one state for all threads
put_checkpoint_shared(st, thread, msgs) ==
  [t \in DOMAIN st \cup {thread} |-> msgs]

\* the checkpointer keeps the latest snapshot written for the thread
put_checkpoint(st, thread, msgs) ==
  [t \in DOMAIN st \cup {thread} |-> IF t = thread THEN msgs ELSE st[t]]

\* ------------------------------------------------------------ conversions
\* json.dumps(value): the JSON text of a value
json_dumps(v) == <<"json", v>>

\* str(value): the Python text of a value
str(v) == <<"str", v>>

\* ------------------------------------------------- main_updated: tools
\* what a registered tool's ainvoke/invoke does: return a value or raise
\* (network error, malformed arguments, missing credential); "timeout" is
\* the remote service of get_stock_price never answering
ToolOutcomes == {"ok", "raise", "timeout"}

\* call_tool(name, args): the returned value; no path raises
call_tool(name, outcome) ==
  IF name \notin tool_map
  THEN [raised |-> FALSE, value |-> [error |-> <<"Unknown tool: ", name>>, name |-> name]]
  ELSE IF outcome = "ok"
       THEN [raised |-> FALSE, value |-> [result |-> name]]
       ELSE IF outcome = "timeout"
            \* _get_json: requests gives up after DEFAULT_TIMEOUT and the
            \* RequestException becomes ToolError("HTTP error for <url>: ...")
            THEN [raised |-> FALSE,
                  value |-> [error |-> <<"HTTP error for ", "timed out">>, name |-> name]]
            ELSE [raised |-> FALSE, value |-> [error |-> <<"exception">>, name |-> name]]

\* a tool node that answers only the first request of the message
tool_node_first(r, k, last, oc) ==
  LET calls == last.tool_calls
  IN [raised |-> FALSE, blocked |-> FALSE,
      messages |-> <<ToolMessage(MsgId(r, k + 1),
                                 json_dumps(call_tool(calls[1].name, oc[1]).value),
                                 calls[1].name, calls[1].id)>>]

\* tool_node of main_updated: one ToolMessage per request, in order
tool_node(r, k, last, oc) ==
  LET calls == last.tool_calls
  IN [raised |-> FALSE, blocked |-> FALSE,
      messages |-> [i \in 1..Len(calls) |->
                      ToolMessage(MsgId(r, k + i),
                                  json_dumps(call_tool(calls[i].name, oc[i]).value),
                                  calls[i].name, calls[i].id)]]

\* _get_last_ai_tool_calls
get_last_ai_tool_calls(messages) ==
  IF messages = <<>> THEN <<>> ELSE messages[Len(messages)].tool_calls

\* route_tools
route_tools(messages) ==
  IF get_last_ai_tool_calls(messages) # <<>> THEN "tool_node" ELSE "__end__"

\* an _sse that picks the latest assistant message of the snapshot instead
\* of testing the last message
sse_last_ai(messages) ==
  LET ais == {i \in 1..Len(messages) : messages[i].type = "ai"}
  IN IF ais = {} THEN <<>>
     ELSE <<[type |-> "content",
             text |-> messages[CHOOSE i \in ais : \A j \in ais : j <= i].content]>>

\* _sse, the body of the loop for one state snapshot: every snapshot has
\* the key "messages", so the "event" branch is never taken
sse(messages) ==
  LET last_msg == messages[Len(messages)]
  IN IF last_msg.type = "ai"
     THEN <<[type |-> "content", text |-> last_msg.content]>>
     ELSE <<>>

\* the frame _sse yields after the stream is exhausted
EndFrame == [type |-> "end"]

\* --------------------------------------------------- CHATBOT/main: tools
\* the branch of tool_node's if/elif/else taken for one request
chatbot_invoke(call, outcome) ==
  IF call.name \in {"tavily_search_results_json", "get_stock_price"}
  THEN IF outcome = "ok"
       THEN [raised |-> FALSE, blocked |-> FALSE, value |-> str([result |-> call.name])]
       ELSE IF outcome = "timeout"
            \* requests.get(url) has no timeout: the call does not return
            THEN [raised |-> FALSE, blocked |-> TRUE, value |-> "no answer"]
            ELSE [raised |-> TRUE, blocked |-> FALSE, value |-> "exception"]
  ELSE [raised |-> FALSE, blocked |-> FALSE,
        value |-> <<"Tool ", call.name, " not implemented.">>]

\* the request's tool does not return a value: it raises or never answers
NoReturn(call, outcome) ==
  chatbot_invoke(call, outcome).raised \/ chatbot_invoke(call, outcome).blocked

\* index of the first request whose tool does not return, 0 if all return
FirstRaise(calls, oc) ==
  IF \E i \in 1..Len(calls) : NoReturn(calls[i], oc[i])
  THEN CHOOSE i \in 1..Len(calls) :
         /\ NoReturn(calls[i], oc[i])
         /\ \A j \in 1..(i - 1) : ~NoReturn(calls[j], oc[j])
  ELSE 0

\* tool_node of CHATBOT/main: the loop stops at the first tool that raises
\* and then returns nothing
chatbot_tool_node(r, k, last, oc) ==
  LET calls == last.tool_calls
  IN IF FirstRaise(calls, oc) # 0
     THEN [raised |-> chatbot_invoke(calls[FirstRaise(calls, oc)],
                                     oc[FirstRaise(calls, oc)]).raised,
           blocked |-> chatbot_invoke(calls[FirstRaise(calls, oc)],
                                      oc[FirstRaise(calls, oc)]).blocked,
           messages |-> <<>>]
     ELSE [raised |-> FALSE, blocked |-> FALSE,
           messages |-> [i \in 1..Len(calls) |->
                           ToolMessage(MsgId(r, k + i),
                                       chatbot_invoke(calls[i], oc[i]).value,
                                       calls[i].name, calls[i].id)]]

\* the test a router meant to make: the text occurs in the content
text_in_content(text, message) ==
  \E i \in 1..Len(message.content) : message.content[i] = text

\* "stock price" in last_message: last_message is a message object, not its
\* content, so the test iterates the object's (field, value) pairs and
\* compares each pair with the text; a pair never equals a text
text_in_message(text, message) ==
  \E f \in DOMAIN message : <<"tuple", f>> = <<"str", text>>

\* tool_router
tool_router(messages) ==
  LET last_message == messages[Len(messages)]
  IN IF text_in_message("stock price", last_message)
        \/ text_in_message("share price", last_message)
     THEN "tool_node"
     ELSE IF Len(last_message.tool_calls) > 0 THEN "tool_node" ELSE "__end__"

\* the frames of the chunks in the reverse of their order of arrival
RECURSIVE content_frames_reversed(_)
content_frames_reversed(chunks) ==
  IF chunks = <<>> THEN <<>>
  ELSE content_frames_reversed(Tail(chunks))
       \o <<[type |-> "content", content |-> Head(chunks)]>>

\* generate_chat_responses, on_chat_model_stream: one frame per chunk
RECURSIVE content_frames(_)
content_frames(chunks) ==
  IF chunks = <<>> THEN <<>>
  ELSE <<[type |-> "content", content |-> Head(chunks)]>> \o content_frames(Tail(chunks))

\* the chunks the model streams for an answer: one per token of text
Chunks(text) == [i \in 1..Len(text) |-> <<text[i]>>]

\* generate_chat_responses, on_chat_model_end: frames for the requests
RECURSIVE tool_start_frames(_)
tool_start_frames(calls) ==
  IF calls = <<>> THEN <<>>
  ELSE LET call == Head(calls)
       IN <<[type |-> "tool_start", tool |-> call.name]>>
          \o (IF call.name = "tavily_search_results_json"
              THEN <<[type |-> "search_start", query |-> call.args.query]>>
              ELSE <<>>)
          \o tool_start_frames(Tail(calls))

\* on_tool_end with only the generic branch
tool_end_frame_generic(tool_name, output) ==
  <<[type |-> "tool_end", tool |-> tool_name, output |-> output]>>

\* generate_chat_responses, on_tool_end: the frame for one finished tool
tool_end_frame(tool_name, output) ==
  IF tool_name = "tavily_search_results_json"
  THEN <<[type |-> "search_results", urls |-> output]>>
  ELSE IF tool_name = "get_stock_price"
       THEN <<[type |-> "stock_result", output |-> output]>>
       ELSE <<[type |-> "tool_end", tool |-> tool_name, output |-> output]>>

\* the on_tool_end events of one run of tool_node: only a tool object that
\* was invoked and returned produces one (requests 1..n)
RECURSIVE tool_end_frames(_, _)
tool_end_frames(calls, n) ==
  IF n = 0 THEN <<>>
  ELSE tool_end_frames(calls, n - 1)
       \o (IF calls[n].name \in {"tavily_search_results_json", "get_stock_price"}
           THEN tool_end_frame(calls[n].name, [result |-> calls[n].name])
           ELSE <<>>)

\* checkpoint_frames without the is_new_conversation test: the frame is
\* yielded for every request
checkpoint_frames_always(checkpoint_id, new_checkpoint_id) ==
  <<[type |-> "checkpoint", checkpoint_id |-> new_checkpoint_id]>>

\* generate_chat_responses, before the events: the checkpoint frame of a
\* new conversation
checkpoint_frames(checkpoint_id, new_checkpoint_id) ==
  IF checkpoint_id = NoId
  THEN <<[type |-> "checkpoint", checkpoint_id |-> new_checkpoint_id]>>
  ELSE <<>>

\* ------------------------------------------------------------ the state
\* a request not yet received
IdleRun ==
  [pc |-> "idle", kind |-> "stream", supplied |-> NoId, thread |-> NoId,
   base |-> <<>>, messages |-> <<>>, steps |-> 0, created |-> 0,
   frames |-> <<>>, exc |-> "", reply |-> <<>>]

\* st.session_state of the chat page before a conversation is picked
NoSession == [thread_id |-> NoId, messages |-> <<>>]

Init ==
  /\ server \in Servers
  /\ store = [t \in {} |-> <<>>]
  /\ runs = [r \in Runs |-> IdleRun]
  /\ asked = 0
  /\ session = NoSession

\* the stream of run r has stopped (normally, by an exception, or because
\* the client went away)
Terminated(r) == runs[r].pc \in {"done", "failed", "cancelled"}

\* "blocked": the tool node waits for a tool that never returns
InFlight(r) == runs[r].pc \in {"model", "tool_node", "blocked"}

\* the graph stops with GraphRecursionError when a node is still due after
\* RecursionLimit node executions
AfterNode(steps, next) ==
  IF next = "__end__" THEN [pc |-> "done", exc |-> ""]
  ELSE IF steps >= RecursionLimit
       THEN [pc |-> "failed", exc |-> "GraphRecursionError"]
       ELSE [pc |-> next, exc |-> ""]

\* ------------------------------------------------------------- actions
\* chat_stream / generate_chat_responses up to the first node: pick the
\* thread, load its checkpoint, add the user message, write the input
\* checkpoint.  CHATBOT/main yields the checkpoint frame for a new thread.
chat_stream(r, thread_id) ==
  /\ runs[r].pc = "idle"
  /\ \A q \in 1..(r - 1) : runs[q].pc # "idle"
  /\ LET is_new == IF server = "CHATBOT_main"
                   THEN thread_id = NoId            \* checkpoint_id is None
                   ELSE thread_id \in {NoId, ""}    \* not thread_id
         thread == IF is_new THEN uuid4(r) ELSE thread_id
         human == HumanMessage(MsgId(r, 1), <<UserText(r)>>)
         base == load_conversation(store, thread)
         messages == add_messages(base, <<human>>)
         first == IF server = "CHATBOT_main"
                  THEN checkpoint_frames(thread_id, thread)
                  ELSE sse(messages)
     IN /\ runs' = [runs EXCEPT ![r] =
                      [pc |-> "model", kind |-> "stream", supplied |-> thread_id,
                       thread |-> thread, base |-> base, messages |-> messages,
                       steps |-> 0, created |-> 1, frames |-> first, exc |-> "",
                       reply |-> <<>>]]
        /\ store' = put_checkpoint(store, thread, messages)
  /\ UNCHANGED <<server, asked, session>>

\* the extraction without the reversal: the first message of type "ai"
RECURSIVE first_ai_content(_)
first_ai_content(messages) ==
  IF messages = <<>> THEN <<>>
  ELSE IF Head(messages).type = "ai"
       THEN Head(messages).content
       ELSE first_ai_content(Tail(messages))

\* chat, the extraction of the answer: the content of the last message of
\* type "ai" ("" if there is none)
RECURSIVE last_ai_content(_)
last_ai_content(messages) ==
  IF messages = <<>> THEN <<>>
  ELSE IF messages[Len(messages)].type = "ai"
       THEN messages[Len(messages)].content
       ELSE last_ai_content(SubSeq(messages, 1, Len(messages) - 1))

\* POST /chat of main_updated up to the first node: a thread of its own,
\* app_graph.ainvoke on the user message; nothing is streamed
chat(r) ==
  /\ server = "main_updated"
  /\ runs[r].pc = "idle"
  /\ \A q \in 1..(r - 1) : runs[q].pc # "idle"
  /\ LET thread == uuid4(r)
         human == HumanMessage(MsgId(r, 1), <<UserText(r)>>)
         base == load_conversation(store, thread)
         messages == add_messages(base, <<human>>)
     IN /\ runs' = [runs EXCEPT ![r] =
                      [pc |-> "model", kind |-> "chat", supplied |-> NoId,
                       thread |-> thread, base |-> base, messages |-> messages,
                       steps |-> 0, created |-> 1, frames |-> <<>>, exc |-> "",
                       reply |-> <<>>]]
        /\ store' = put_checkpoint(store, thread, messages)
  /\ UNCHANGED <<server, asked, session>>

\* the model node returns an answer: it is added to the state, the state is
\* checkpointed, the frames for it are yielded and the router picks the
\* next node; after the last node the generator yields the end frame
ModelAnswers(r, text, names) ==
  /\ runs[r].pc = "model"
  /\ asked + Len(names) <= MaxToolCalls
  /\ asked' = asked + Len(names)
  /\ LET run == runs[r]
         mid == MsgId(r, run.created + 1)
         result == AIMessage(mid, text, ToolCalls(mid, names))
         messages == add_messages(run.messages, <<result>>)
         next == IF server = "CHATBOT_main" THEN tool_router(messages)
                                            ELSE route_tools(messages)
         after == AfterNode(run.steps + 1, next)
         yielded == IF run.kind = "chat" THEN <<>>
                    ELSE IF server = "CHATBOT_main"
                         THEN content_frames(Chunks(text))
                              \o tool_start_frames(result.tool_calls)
                         ELSE sse(messages)
         last == IF after.pc = "done" /\ run.kind = "stream"
                 THEN <<EndFrame>> ELSE <<>>
         reply == IF after.pc = "done" /\ run.kind = "chat"
                  THEN <<last_ai_content(messages)>> ELSE <<>>
     IN /\ runs' = [runs EXCEPT ![r] =
                      [run EXCEPT !.pc = after.pc, !.exc = after.exc,
                                  !.messages = messages, !.steps = run.steps + 1,
                                  !.created = run.created + 1,
                                  !.frames = run.frames \o yielded \o last,
                                  !.reply = reply]]
        /\ store' = put_checkpoint(store, run.thread, messages)
  /\ UNCHANGED <<server, session>>

\* the model call raises: the node writes nothing and the exception leaves
\* the generator, which yields nothing more
ModelFails(r) ==
  /\ runs[r].pc = "model"
  /\ runs' = [runs EXCEPT ![r].pc = "failed", ![r].exc = "ModelFailure"]
  /\ UNCHANGED <<server, store, asked, session>>

\* the tool node runs the requests of the last message
ToolNode(r, oc) ==
  /\ runs[r].pc = "tool_node"
  /\ LET run == runs[r]
         last == run.messages[Len(run.messages)]
         calls == last.tool_calls
         out == IF server = "CHATBOT_main"
                THEN chatbot_tool_node(r, run.created, last, oc)
                ELSE tool_node(r, run.created, last, oc)
         messages == add_messages(run.messages, out.messages)
         after == AfterNode(run.steps + 1, "model")
         done == IF out.raised \/ out.blocked THEN FirstRaise(calls, oc) - 1
                 ELSE Len(calls)
         yielded == IF run.kind = "chat" THEN <<>>
                    ELSE IF server = "CHATBOT_main"
                         THEN tool_end_frames(calls, done)
                         ELSE IF out.raised THEN <<>> ELSE sse(messages)
     IN /\ Len(oc) = Len(calls)
        /\ \A i \in 1..Len(calls) :
             oc[i] = "timeout" => calls[i].name = "get_stock_price"
        /\ IF out.raised \/ out.blocked
           THEN /\ runs' = [runs EXCEPT ![r] =
                              [run EXCEPT !.pc = IF out.raised THEN "failed"
                                                              ELSE "blocked",
                                          !.exc = IF out.raised THEN "ToolFailure"
                                                               ELSE "",
                                          !.frames = run.frames \o yielded]]
                /\ store' = store
           ELSE /\ runs' = [runs EXCEPT ![r] =
                              [run EXCEPT !.pc = after.pc, !.exc = after.exc,
                                          !.messages = messages,
                                          !.steps = run.steps + 1,
                                          !.created = run.created + Len(calls),
                                          !.frames = run.frames \o yielded]]
                /\ store' = put_checkpoint(store, run.thread, messages)
  /\ UNCHANGED <<server, asked, session>>

\* the client closes the connection while the turn is running: the
\* generator is closed where it waits, checkpoints already written stay
Disconnect(r) ==
  /\ InFlight(r)
  /\ runs' = [runs EXCEPT ![r].pc = "cancelled"]
  /\ UNCHANGED <<server, store, asked, session>>

CallLists == UNION {[1..n -> ToolNames] : n \in 0..MaxCalls}

OutcomeLists == UNION {[1..n -> ToolOutcomes] : n \in 1..MaxCalls}

Next ==
  \/ \E r \in Runs, t \in SuppliedIds \cup {NoId} : chat_stream(r, t)
  \/ \E r \in Runs : chat(r)
  \/ \E r \in Runs, text \in Texts, names \in CallLists : ModelAnswers(r, text, names)
  \/ \E r \in Runs : ModelFails(r)
  \/ \E r \in Runs, oc \in OutcomeLists : ToolNode(r, oc)
  \/ \E r \in Runs : Disconnect(r)

Spec == Init /\ [][Next]_vars

\* --------------------------------------------------- one turn on its own
\* what the thread t1 holds after an earlier turn without tools
EarlierTurn ==
  <<HumanMessage(1, <<"q0">>), AIMessage(2, <<"a">>, <<>>)>>

\* the checkpointer before the request: empty, or holding that thread
StoredBefore == {[t \in {} |-> <<>>], [t \in {"t1"} |-> EarlierTurn]}

InitTurn ==
  /\ server \in Servers
  /\ store \in StoredBefore
  /\ runs = [r \in Runs |-> IdleRun]
  /\ asked = 0
  /\ session = NoSession

\* a single request is served and nothing else happens
NextTurn ==
  \/ \E t \in SuppliedIds \cup {NoId} : chat_stream(1, t)
  \/ chat(1)
  \/ \E text \in Texts, names \in CallLists : ModelAnswers(1, text, names)
  \/ ModelFails(1)
  \/ \E oc \in OutcomeLists : ToolNode(1, oc)
  \/ Disconnect(1)

SpecTurn == InitTurn /\ [][NextTurn]_vars

\* ------------------------------------------------ reading a conversation
\* the sidebar loop: a message is shown as "user" if it is a HumanMessage
\* and as "assistant" otherwise
temp_messages(messages) ==
  [i \in 1..Len(messages) |->
     [role |-> IF messages[i].type = "human" THEN "user" ELSE "assistant",
      content |-> messages[i].content]]

\* get_state that leaves an entry behind for the thread it was asked for
get_state_creates(st, thread) ==
  IF thread \in DOMAIN st THEN st ELSE put_checkpoint(st, thread, <<>>)

\* what app_graph.get_state(config) leaves in the checkpointer: it only reads
get_state_effect(st, thread) == st

\* identifiers the chat page may ask for
ReadIds == SuppliedIds \cup {uuid4(1), "t9"}

\* a click on a conversation in the sidebar: load_conversation and the
\* conversion into the session's messages
load_thread(thread_id) ==
  /\ session' = [thread_id |-> thread_id,
                 messages |-> temp_messages(load_conversation(store, thread_id))]
  /\ store' = get_state_effect(store, thread_id)
  /\ UNCHANGED <<server, runs, asked>>

NextRead ==
  \/ NextTurn
  \/ \E t \in ReadIds : load_thread(t)

SpecRead == InitTurn /\ [][NextRead]_vars

\* ------------------------------------------------------------ the clients
\* frontend.py, the SSE loop: the reply is the text of the latest content
\* frame read before the end frame
RECURSIVE response_text_latest(_, _)
response_text_latest(frames, response_text) ==
  IF frames = <<>> THEN response_text
  ELSE IF Head(frames).type = "end" THEN response_text
  ELSE IF Head(frames).type = "content"
       THEN response_text_latest(Tail(frames),
                                 IF "text" \in DOMAIN Head(frames)
                                 THEN Head(frames).text ELSE <<>>)
       ELSE response_text_latest(Tail(frames), response_text)

\* CHATBOT/frontend.py, the SSE loop: the reply is the concatenation of
\* the content frames read before the end frame
RECURSIVE response_text_appended(_, _)
response_text_appended(frames, response_text) ==
  IF frames = <<>> THEN response_text
  ELSE IF Head(frames).type = "end" THEN response_text
  ELSE IF Head(frames).type = "content"
       THEN response_text_appended(Tail(frames),
                                   response_text \o Head(frames).content)
       ELSE response_text_appended(Tail(frames), response_text)

\* the identifier the client keeps: CHATBOT/frontend.py takes it from the
\* checkpoint frame, frontend.py keeps the one it sent
client_thread(frames, supplied) ==
  IF \E i \in 1..Len(frames) : frames[i].type = "checkpoint"
  THEN frames[CHOOSE i \in 1..Len(frames) : frames[i].type = "checkpoint"].checkpoint_id
  ELSE supplied

\* the client has read the stream of run r up to its end frame and stores
\* the user's message and the reply in its session
save_reply(r) ==
  /\ runs[r].kind = "stream"
  /\ runs[r].frames # <<>>
  /\ runs[r].frames[Len(runs[r].frames)].type = "end"
  /\ session.messages = <<>>
  /\ LET response_text == IF server = "CHATBOT_main"
                          THEN response_text_appended(runs[r].frames, <<>>)
                          ELSE response_text_latest(runs[r].frames, <<>>)
     IN session' = [thread_id |-> client_thread(runs[r].frames, runs[r].supplied),
                    messages |-> <<[role |-> "user", content |-> <<UserText(r)>>],
                                   [role |-> "assistant", content |-> response_text]>>]
  /\ UNCHANGED <<server, store, runs, asked>>

\* one request and the client that sent it
NextClient ==
  \/ NextTurn
  \/ save_reply(1)

SpecClient == InitTurn /\ [][NextClient]_vars

\* ---------------------------------------------------------------- helpers
Count(frames, type) == Cardinality({i \in 1..Len(frames) : frames[i].type = type})

IsPrefix(a, b) == Len(a) <= Len(b) /\ SubSeq(b, 1, Len(a)) = a

Last(seq) == seq[Len(seq)]

\* the run that created a message
Creator(m) == m.id \div 100

\* ------------------------------------------------------------------ claims
\* C1: every turn that has terminated (normally, by a failing tool, by a
\* failing model call or at the round limit) has exactly one end frame in
\* its stream, and an end frame is always the last frame.
C1_ExactlyOneEndFrameLast ==
  \A r \in Runs :
    /\ \A i \in 1..Len(runs[r].frames) :
         runs[r].frames[i].type = "end" => i = Len(runs[r].frames)
    /\ runs[r].pc \in {"done", "failed"} =>
         /\ Count(runs[r].frames, "end") = 1
         /\ Last(runs[r].frames).type = "end"

\* C2 as stated: a turn has exactly one checkpoint frame, first and carrying
\* the generated identifier, iff the request supplied no identifier, and
\* none otherwise.
C2_CheckpointIffNoIdSupplied ==
  \A r \in Runs :
    runs[r].pc # "idle" =>
      IF runs[r].supplied = NoId
      THEN /\ Count(runs[r].frames, "checkpoint") = 1
           /\ runs[r].frames[1] = [type |-> "checkpoint", checkpoint_id |-> runs[r].thread]
      ELSE Count(runs[r].frames, "checkpoint") = 0

\* C2 amended: on CHATBOT/main a turn has exactly one checkpoint frame, first
\* and carrying the generated identifier, iff the request supplied no
\* identifier; a request that supplies an identifier has none on either
\* server; main_updated never emits a checkpoint frame.
C2_CheckpointFrame ==
  \A r \in Runs :
    runs[r].pc # "idle" =>
      IF runs[r].supplied = NoId /\ server = "CHATBOT_main"
      THEN /\ Count(runs[r].frames, "checkpoint") = 1
           /\ runs[r].frames[1] = [type |-> "checkpoint", checkpoint_id |-> runs[r].thread]
           /\ runs[r].thread \notin SuppliedIds
      ELSE Count(runs[r].frames, "checkpoint") = 0

\* a finished turn of CHATBOT/main on a new thread: checkpoint, ..., end
C2_Witness ==
  \E r \in Runs :
    /\ server = "CHATBOT_main"
    /\ runs[r].supplied = NoId
    /\ runs[r].pc = "done"
    /\ Len(runs[r].frames) >= 3
    /\ runs[r].frames[1].type = "checkpoint"

\* C3: the tool-execution step of a message with N requests adds exactly N
\* tool messages, the i-th with the call id and tool name of the i-th
\* request, whatever the tools do.
C3_OneToolMessagePerRequest ==
  [][\A r \in Runs :
       (runs[r].pc = "tool_node" /\ runs'[r].pc \notin {"tool_node", "cancelled"}) =>
         LET before == runs[r].messages
             after == runs'[r].messages
             calls == Last(before).tool_calls
         IN /\ Len(after) = Len(before) + Len(calls)
            /\ IsPrefix(before, after)
            /\ \A i \in 1..Len(calls) :
                 /\ after[Len(before) + i].type = "tool"
                 /\ after[Len(before) + i].tool_call_id = calls[i].id
                 /\ after[Len(before) + i].name = calls[i].name]_vars

\* C4: invoking a tool never raises to the caller: no turn ends with the
\* exception of a tool, and the result for an unregistered name is an error
\* that names the tool.
C4_ToolInvocationNeverRaises ==
  \A r \in Runs :
    /\ runs[r].exc # "ToolFailure"
    /\ \A i \in 1..Len(runs[r].messages) :
         LET m == runs[r].messages[i]
         IN (m.type = "tool" /\ m.name = "no_such_tool") =>
              m.content \in {json_dumps([error |-> <<"Unknown tool: ", m.name>>, name |-> m.name]),
                             <<"Tool ", m.name, " not implemented.">>}

\* a tool raised during the turn of run r
ToolFailedIn(r) ==
  \/ runs[r].exc = "ToolFailure"
  \/ \E i \in 1..Len(runs[r].messages) :
       LET m == runs[r].messages[i]
       IN /\ m.type = "tool"
          /\ Creator(m) = r
          /\ m.content = json_dumps([error |-> <<"exception">>, name |-> m.name])

\* C5: a turn in which a tool failed is not aborted, emits no error frame,
\* and when it is over its stream has a tool_end frame with the error
\* payload, then a content frame, then the end frame.
C5_ToolFailureSurfacedAsToolEnd ==
  \A r \in Runs :
    ToolFailedIn(r) =>
      /\ runs[r].pc # "failed"
      /\ Count(runs[r].frames, "error") = 0
      /\ runs[r].pc = "done" =>
           \E i, j \in 1..Len(runs[r].frames) :
             /\ i < j /\ j < Len(runs[r].frames)
             /\ runs[r].frames[i].type = "tool_end"
             /\ runs[r].frames[j].type = "content"
             /\ Last(runs[r].frames).type = "end"

\* C6: a turn whose model call failed ends its stream with one error frame
\* immediately followed by the end frame; no turn has two error frames.
C6_ModelFailureErrorThenEnd ==
  \A r \in Runs :
    /\ Count(runs[r].frames, "error") <= 1
    /\ runs[r].exc = "ModelFailure" =>
         LET n == Len(runs[r].frames)
         IN /\ n >= 2
            /\ runs[r].frames[n - 1].type = "error"
            /\ runs[r].frames[n].type = "end"
            /\ Count(runs[r].frames, "error") = 1

\* C7: a turn that did not reach its final assistant message leaves the
\* persisted history of its thread as it was before the turn (stated for a
\* thread no other turn has used meanwhile).
C7_UnfinishedTurnLeavesNoTrace ==
  \A r \in Runs :
    (/\ runs[r].pc \in {"failed", "cancelled"}
     /\ \A q \in Runs \ {r} : runs[q].thread # runs[r].thread) =>
      load_conversation(store, runs[r].thread) = runs[r].base

\* C8: the node executions of a turn never exceed the fixed maximum, and a
\* turn stopped at the maximum ends its stream with an error frame followed
\* by the end frame.
C8_RoundLimitSurfacedAsError ==
  \A r \in Runs :
    /\ runs[r].steps <= RecursionLimit
    /\ runs[r].exc = "GraphRecursionError" =>
         LET n == Len(runs[r].frames)
         IN /\ n >= 2
            /\ runs[r].frames[n - 1] = [type |-> "error", message |-> "MaxRoundsExceeded"]
            /\ runs[r].frames[n].type = "end"

\* C9: the persisted history of every thread only grows: each step leaves
\* every thread's history a prefix of its new history.
C9_HistoryAppendOnly ==
  [][\A t \in DOMAIN store :
       /\ t \in DOMAIN store'
       /\ IsPrefix(store[t], store'[t])]_vars

\* C10: at most one turn is in flight per thread identifier.
C10_OneTurnInFlightPerThread ==
  \A r, q \in Runs :
    (r # q /\ InFlight(r) /\ InFlight(q)) => runs[r].thread # runs[q].thread

\* C11: a step of a turn leaves the persisted history of every other thread
\* as it was, and the history the turn hands to the model holds only
\* messages created by turns on its own thread, also when turns overlap.
C11_TurnTouchesOnlyItsThread ==
  [][\A r \in Runs :
       runs'[r] # runs[r] =>
         /\ \A t \in DOMAIN store :
              t # runs'[r].thread => (t \in DOMAIN store' /\ store'[t] = store[t])
         /\ \A i \in 1..Len(runs'[r].messages) :
              runs'[Creator(runs'[r].messages[i])].thread = runs'[r].thread]_vars

\* two turns on different threads are running at the same time and each has
\* an answer of the model in its history
C11_Witness ==
  \E r, q \in Runs :
    /\ runs[r].thread # runs[q].thread
    /\ InFlight(r) /\ InFlight(q)
    /\ Len(runs[r].messages) >= 2 /\ Len(runs[q].messages) >= 2
    /\ DOMAIN store = {runs[r].thread, runs[q].thread}

\* the tool messages run r has added to its history
ToolMessagesOf(r) ==
  {i \in 1..Len(runs[r].messages) :
     runs[r].messages[i].type = "tool" /\ Creator(runs[r].messages[i]) = r}

\* C12: a finished streaming turn has one tool_start and one tool_end frame
\* per executed tool-call request, and every tool_start frame is followed by
\* a tool_end frame of the same tool.
C12_ToolStartAndEndPerRequest ==
  \A r \in Runs :
    (runs[r].kind = "stream" /\ runs[r].pc = "done") =>
      /\ Count(runs[r].frames, "tool_start") = Cardinality(ToolMessagesOf(r))
      /\ Count(runs[r].frames, "tool_end") = Cardinality(ToolMessagesOf(r))
      /\ \A i \in 1..Len(runs[r].frames) :
           runs[r].frames[i].type = "tool_start" =>
             \E j \in (i + 1)..Len(runs[r].frames) :
               /\ runs[r].frames[j].type = "tool_end"
               /\ runs[r].frames[j].tool = runs[r].frames[i].tool

\* C13: when the tool step of a message with several requests is over, the
\* stream has, for each request but the last, a tool_end frame of that
\* request before the tool_start frame of the next one.
C13_ToolPairsInDeclarationOrder ==
  \A r \in Runs :
    runs[r].kind = "stream" =>
      \A k \in 1..Len(runs[r].messages) :
        LET m == runs[r].messages[k]
        IN (/\ m.type = "ai" /\ Creator(m) = r
            /\ Len(m.tool_calls) >= 2
            /\ k + Len(m.tool_calls) <= Len(runs[r].messages)) =>
             \A c \in 1..(Len(m.tool_calls) - 1) :
               \E e, b \in 1..Len(runs[r].frames) :
                 /\ e < b
                 /\ runs[r].frames[e].type = "tool_end"
                 /\ runs[r].frames[e].tool = m.tool_calls[c].name
                 /\ runs[r].frames[b].type = "tool_start"
                 /\ runs[r].frames[b].tool = m.tool_calls[c + 1].name

EmittedTypes ==
  IF server = "CHATBOT_main"
  THEN {"checkpoint", "content", "tool_start", "search_start",
        "search_results", "stock_result", "end"}
  ELSE {"content", "end"}

SeenBefore(t) ==
  /\ t = "t1"
  /\ "t1" \in DOMAIN store
  /\ store["t1"][1] = EarlierTurn[1]

\* C15: a streaming turn on a supplied identifier the store has never seen
\* starts from the empty history, has no checkpoint and no error frame, and
\* the thread under that identifier holds exactly the messages of the turn.
\* (An empty thread_id is no identifier for main_updated: "not thread_id".)
C15_UnknownThreadStartsFresh ==
  \A r \in Runs :
    (/\ runs[r].pc # "idle" /\ runs[r].kind = "stream"
     /\ runs[r].supplied # NoId /\ runs[r].thread = runs[r].supplied
     /\ ~SeenBefore(runs[r].thread)) =>
      /\ runs[r].base = <<>>
      /\ Count(runs[r].frames, "checkpoint") = 0
      /\ Count(runs[r].frames, "error") = 0
      /\ load_conversation(store, runs[r].thread) = runs[r].messages
      /\ \A i \in 1..Len(runs[r].messages) : Creator(runs[r].messages[i]) = r

\* a finished turn with one tool round on the unknown identifier t1 while
\* another thread is stored: its thread holds the four messages of the turn
C15_Witness ==
  \E r \in Runs :
    /\ runs[r].pc = "done"
    /\ runs[r].supplied \in SuppliedIds /\ runs[r].thread = runs[r].supplied
    /\ ~SeenBefore(runs[r].thread)
    /\ DOMAIN store = {"t1", runs[r].thread} /\ runs[r].thread # "t1"
    /\ Len(store[runs[r].thread]) = 4

\* C16: a call of the non-streaming endpoint runs on a thread of its own
\* with no earlier history, shares no message with another call, and
\* returns, when the turn has finished, the text of the last message of the
\* history, which is an assistant message without tool-call requests.
C16_ChatReturnsFinalText ==
  \A r \in Runs :
    runs[r].kind = "chat" =>
      /\ runs[r].base = <<>>
      /\ runs[r].frames = <<>>
      /\ \A q \in Runs \ {r} : runs[q].pc # "idle" => runs[q].thread # runs[r].thread
      /\ \A i \in 1..Len(runs[r].messages) : Creator(runs[r].messages[i]) = r
      /\ (runs[r].reply # <<>>) <=> (runs[r].pc = "done")
      /\ runs[r].pc = "done" =>
           /\ Last(runs[r].messages).type = "ai"
           /\ Last(runs[r].messages).tool_calls = <<>>
           /\ runs[r].reply = <<Last(runs[r].messages).content>>
           /\ load_conversation(store, runs[r].thread) = runs[r].messages

\* two calls have returned, one of them after a tool round whose first
\* answer had another text than the final one
C16_Witness ==
  \E r, q \in Runs :
    /\ r # q
    /\ runs[r].kind = "chat" /\ runs[q].kind = "chat"
    /\ runs[r].pc = "done" /\ runs[q].pc = "done"
    /\ Len(runs[r].messages) >= 4
    /\ runs[r].messages[2].content # Last(runs[r].messages).content

\* C17: no tool invocation blocks a turn, and the result of an invocation
\* that ran into its time limit is the error "timeout".
C17_ToolTimeoutBecomesTimeoutError ==
  \A r \in Runs :
    /\ runs[r].pc # "blocked"
    /\ \A i \in 1..Len(runs[r].messages) :
         LET m == runs[r].messages[i]
         IN (m.type = "tool"
             /\ m.content = json_dumps(call_tool(m.name, "timeout").value)) =>
              m.content = json_dumps([error |-> <<"timeout">>, name |-> m.name])

C19_RouteByToolCallsOnly ==
  [][\A r \in Runs :
       (runs[r].pc = "model" /\ Len(runs'[r].messages) = Len(runs[r].messages) + 1) =>
         LET m == Last(runs'[r].messages)
             to_tools == \/ runs'[r].pc = "tool_node"
                         \/ runs'[r].exc = "GraphRecursionError"
         IN /\ m.type = "ai"
            /\ to_tools <=> (Len(m.tool_calls) >= 1)
            /\ (runs'[r].pc = "done") <=> (m.tool_calls = <<>>)
            /\ runs'[r].pc = "tool_node" => Last(runs'[r].messages).tool_calls # <<>>]_vars

\* CHATBOT/main has ended a turn whose answer reads "stock price" and
\* requests no tool
C19_Witness ==
  \E r \in Runs :
    /\ server = "CHATBOT_main"
    /\ runs[r].pc = "done"
    /\ Last(runs[r].messages).content = <<"stock price">>
    /\ Last(runs[r].messages).tool_calls = <<>>

\* a turn is running on thread t
TurnInFlightOn(t) == \E r \in Runs : InFlight(r) /\ runs[r].thread = t

\* C20: in every persisted history a tool message answers a request of the
\* nearest assistant message before it, no two tool messages after one
\* assistant message share a call id, and when no turn is running on the
\* thread every request of an assistant message is followed by its answer.
C20_ToolMessagesAnswerRequests ==
  \A t \in DOMAIN store :
    LET h == store[t]
    IN /\ \A i \in 1..Len(h) :
            h[i].type = "tool" =>
              \E k \in 1..(i - 1) :
                /\ h[k].type = "ai"
                /\ \A x \in (k + 1)..(i - 1) : h[x].type = "tool"
                /\ \E c \in 1..Len(h[k].tool_calls) :
                     h[k].tool_calls[c].id = h[i].tool_call_id
                /\ \A x \in (k + 1)..(i - 1) : h[x].tool_call_id # h[i].tool_call_id
       /\ ~TurnInFlightOn(t) =>
            \A k \in 1..Len(h) :
              \A c \in 1..Len(h[k].tool_calls) :
                /\ k + c <= Len(h)
                /\ h[k + c].type = "tool"
                /\ h[k + c].tool_call_id = h[k].tool_calls[c].id

\* the messages run r has appended to the history it started from
Appended(r) ==
  SubSeq(runs[r].messages, Len(runs[r].base) + 1, Len(runs[r].messages))

\* the shape of what a completed turn has appended, and the thread holding it
TurnShape(r) ==
  LET new == Appended(r)
      n == Len(new)
      rounds == {i \in 1..n : new[i].type = "ai" /\ new[i].tool_calls # <<>>}
  IN /\ IsPrefix(runs[r].base, runs[r].messages)
     /\ load_conversation(store, runs[r].thread) = runs[r].messages
     /\ n >= 2
     /\ new[1].type = "human" /\ new[1].content = <<UserText(r)>>
     /\ new[2].type = "ai"
     /\ new[n].type = "ai" /\ new[n].tool_calls = <<>>
     /\ \A i \in 2..n : new[i].type # "human"
     /\ \A i \in 2..(n - 1) :
          new[i].type = "ai" =>
            LET calls == new[i].tool_calls
            IN /\ calls # <<>>
               /\ i + Len(calls) < n
               /\ \A c \in 1..Len(calls) :
                    /\ new[i + c].type = "tool"
                    /\ new[i + c].tool_call_id = calls[c].id
                    /\ new[i + c].name = calls[c].name
               /\ new[i + Len(calls) + 1].type = "ai"
     /\ rounds = {} => n = 2
     /\ (rounds = {2} /\ Len(new[2].tool_calls) = 1) => n = 4

\* C21: when a turn completes normally, the messages it has appended are
\* the user message, then per tool round one assistant message with
\* requests followed by one tool message per request in the order of the
\* requests, then one assistant message without requests (2 messages with
\* no tool round, 4 with a single round of one request), and the thread
\* holds the history of the turn.
C21_TurnAppendsItsMessages ==
  [][\A r \in Runs :
       (runs[r].pc # "done" /\ runs'[r].pc = "done") => TurnShape(r)']_vars

\* a turn on a thread with history has completed after one round of two
\* requests: it appended five messages
C21_Witness ==
  \E r \in Runs :
    /\ runs[r].pc = "done"
    /\ runs[r].base # <<>>
    /\ Len(Appended(r)) = 5
    /\ Len(Appended(r)[2].tool_calls) = 2

\* the frames the step has added to the stream of run r
NewFrames(r) ==
  SubSeq(runs'[r].frames, Len(runs[r].frames) + 1, Len(runs'[r].frames))

\* the text a content frame carries, whatever the name of its field
FrameText(frame) ==
  IF "content" \in DOMAIN frame THEN frame.content ELSE frame.text

\* the concatenation of the texts of the content frames among the frames
RECURSIVE ContentText(_)
ContentText(frames) ==
  IF frames = <<>> THEN <<>>
  ELSE (IF Head(frames).type = "content" THEN FrameText(Head(frames)) ELSE <<>>)
       \o ContentText(Tail(frames))

\* run r makes a model step of a streaming turn
ModelStep(r) ==
  /\ runs[r].kind = "stream"
  /\ runs[r].pc = "model"
  /\ Len(runs'[r].messages) = Len(runs[r].messages) + 1

\* the content frames of a model step spell the text of its message and
\* come before the tool_start frames of the step
ContentInOrder(r) ==
  /\ IsPrefix(runs[r].frames, runs'[r].frames)
  /\ ContentText(NewFrames(r)) = Last(runs'[r].messages).content
  /\ \A i, j \in 1..Len(NewFrames(r)) :
       (NewFrames(r)[i].type = "content" /\ NewFrames(r)[j].type = "tool_start")
         => i < j

\* C22 as stated: every content frame carries its text in the field
\* "content"; the content frames of a model call spell the text of the
\* message of that call and precede its tool_start frames.
C22_ContentFramesSpellTheMessage ==
  [][\A r \in Runs :
       ModelStep(r) =>
         /\ \A i \in 1..Len(NewFrames(r)) :
              NewFrames(r)[i].type = "content"
                => "content" \in DOMAIN NewFrames(r)[i]
         /\ ContentInOrder(r)]_vars

\* C22 amended: a content frame of CHATBOT/main carries a chunk of text in
\* the field "content", a content frame of main_updated carries the
\* whole text of the message in the field "text" and is the only frame of
\* its model call; on both servers the content frames of a model call
\* spell the text of the message of that call, in generation order, and
\* precede the tool_start frames of the call.
C22_ContentFrames ==
  [][\A r \in Runs :
       ModelStep(r) =>
         /\ \A i \in 1..Len(NewFrames(r)) :
              NewFrames(r)[i].type = "content" =>
                IF server = "CHATBOT_main"
                THEN DOMAIN NewFrames(r)[i] = {"type", "content"}
                ELSE /\ DOMAIN NewFrames(r)[i] = {"type", "text"}
                     /\ NewFrames(r)[i].text = Last(runs'[r].messages).content
         /\ server = "main_updated" =>
              Count(NewFrames(r), "content") = 1
         /\ ContentInOrder(r)]_vars

\* CHATBOT/main has streamed an answer of two chunks that requests a tool:
\* two content frames, then the tool_start frame
C22_Witness ==
  \E r \in Runs :
    /\ server = "CHATBOT_main"
    /\ Len(runs[r].frames) >= 3
    /\ \E i \in 1..(Len(runs[r].frames) - 2) :
         /\ runs[r].frames[i].type = "content"
         /\ runs[r].frames[i + 1].type = "content"
         /\ runs[r].frames[i].content \o runs[r].frames[i + 1].content = <<"a", "b">>
         /\ runs[r].frames[i + 2].type = "tool_start"

\* the texts of the assistant messages among the messages, in order
RECURSIVE AiTexts(_)
AiTexts(messages) ==
  IF messages = <<>> THEN <<>>
  ELSE (IF Head(messages).type = "ai" THEN <<Head(messages).content>> ELSE <<>>)
       \o AiTexts(Tail(messages))

\* the texts of the content frames among the frames, in order
RECURSIVE FrameTexts(_)
FrameTexts(frames) ==
  IF frames = <<>> THEN <<>>
  ELSE (IF Head(frames).type = "content" THEN <<FrameText(Head(frames))>> ELSE <<>>)
       \o FrameTexts(Tail(frames))

\* C23: in the stream of main_updated, also on a thread with history, the
\* content frames are, in order, the texts of the assistant messages the
\* turn itself has appended: one frame per such message and none for a
\* message of an earlier turn.
C23_ContentFramesOfThisTurnOnly ==
  \A r \in Runs :
    (server = "main_updated" /\ runs[r].kind = "stream") =>
      /\ FrameTexts(runs[r].frames) = AiTexts(Appended(r))
      /\ Count(runs[r].frames, "content") = Len(AiTexts(Appended(r)))

\* main_updated has completed a turn with a tool round on the thread that
\* holds the earlier turn: two content frames
C23_Witness ==
  \E r \in Runs :
    /\ server = "main_updated"
    /\ runs[r].pc = "done"
    /\ runs[r].base = EarlierTurn
    /\ Count(runs[r].frames, "content") = 2
    /\ Len(Appended(r)) >= 4

\* C24: the reply the client has stored after a stream that ended with an
\* end frame is the text of the final assistant message of the turn as the
\* thread holds it, for both pairs of client and server.
C24_ClientReplyIsFinalText ==
  session.messages # <<>> =>
    /\ Last(load_conversation(store, runs[1].thread)).type = "ai"
    /\ Last(session.messages).content
         = Last(load_conversation(store, runs[1].thread)).content

====
